---- MODULE Spec2Model ----
(***************************************************************************)
(* Model of the configuration loader (src/constants/constants.ts) and of   *)
(* the token-holdings enrichment routine getTokenAccounts / fetchCoinPrice *)
(* (src/liquidity/liquidity.ts).                                           *)
(*                                                                         *)
(* Strings of the process environment are sequences of one-character       *)
(* strings, so that Number(...) and parseFloat(...) are computed as the    *)
(* JavaScript conversions compute them (on the alphabet of decimal digits  *)
(* and letters).  JavaScript values of mixed type (the oracle's usdPrice,  *)
(* a loaded setting) are tagged records.                                   *)
(***************************************************************************)
EXTENDS Integers, Sequences, FiniteSets

VARIABLES
    env,        \* process.env: setting name -> string, or Absent
    cfgStep,    \* position of the module body of constants.ts (1..CfgDone)
    config,     \* the exported constants evaluated so far
    readLog,    \* names passed to retrieveEnvVariable, in order
    errorLog,   \* logger.error lines of the loader
    exitCode,   \* Running, or the code given to process.exit
    pc,         \* position of getTokenAccounts
    tokenResp,  \* tokenResp.value of the resolved ledger call
    idx,        \* 1-based position of the for...of loop over tokenResp.value
    accounts,   \* the accumulating result array
    fetches,    \* one fetchCoinPrice invocation per loop position
    ledgerCalls,\* number of connection.getTokenAccountsByOwner calls
    oracleCalls,\* number of Moralis.start and of getTokenPrice calls made
    escaped     \* the exception that left getTokenAccounts, or "none"

cfgVars == <<env, cfgStep, config, readLog, errorLog, exitCode>>
liqVars == <<pc, tokenResp, idx, accounts, fetches, ledgerCalls, oracleCalls,
            escaped>>
vars == <<env, cfgStep, config, readLog, errorLog, exitCode,
          pc, tokenResp, idx, accounts, fetches, ledgerCalls, oracleCalls,
          escaped>>

(***************************************************************************)
(* Bounds                                                                  *)
(***************************************************************************)
\* Longest ledger response (number of token-account records) explored.
MaxRecords == 2
\* Retries made by the retrying variant of PriceReject.
MaxRetries == 1

(***************************************************************************)
(* Strings                                                                 *)
(***************************************************************************)
Digits == {"0", "1", "2", "3", "4", "5", "6", "7", "8", "9"}

DigitVal(c) ==
    CASE c = "0" -> 0 [] c = "1" -> 1 [] c = "2" -> 2 [] c = "3" -> 3
      [] c = "4" -> 4 [] c = "5" -> 5 [] c = "6" -> 6 [] c = "7" -> 7
      [] c = "8" -> 8 [] c = "9" -> 9

\* process.env[name] of a variable that is not set
Absent == <<"undefined">>

sProcessed == <<"p", "r", "o", "c", "e", "s", "s", "e", "d">>
sConfirmed == <<"c", "o", "n", "f", "i", "r", "m", "e", "d">>
sFinalized == <<"f", "i", "n", "a", "l", "i", "z", "e", "d">>
sUrgent    == <<"u", "r", "g", "e", "n", "t">>
sTrue      == <<"t", "r", "u", "e">>
sFalse     == <<"f", "a", "l", "s", "e">>
sYes       == <<"y", "e", "s">>
sOpaque    == <<"x">>
sThree     == <<"3">>
sTwentyFive == <<"2", "5">>
sAbc       == <<"a", "b", "c">>
sThreeA    == <<"3", "a">>

(***************************************************************************)
(* JavaScript values held by the exported constants                        *)
(***************************************************************************)
Unset      == [t |-> "unset",   s |-> <<>>, b |-> FALSE, n |-> 0]
StrVal(s)  == [t |-> "string",  s |-> s,    b |-> FALSE, n |-> 0]
BoolVal(b) == [t |-> "boolean", s |-> <<>>, b |-> b,     n |-> 0]
NumVal(n)  == [t |-> "number",  s |-> <<>>, b |-> FALSE, n |-> n]
NaN        == [t |-> "NaN",     s |-> <<>>, b |-> FALSE, n |-> 0]

\* Value of a string of decimal digits.
RECURSIVE DecimalValue(_)
DecimalValue(s) ==
    IF s = <<>> THEN 0
    ELSE 10 * DecimalValue(SubSeq(s, 1, Len(s) - 1)) + DigitVal(s[Len(s)])

\* Length of the longest prefix of s made of decimal digits.
RECURSIVE DigitPrefixLen(_)
DigitPrefixLen(s) ==
    IF s = <<>> \/ s[1] \notin Digits THEN 0
    ELSE 1 + DigitPrefixLen(Tail(s))

\* Number(s): the whole string must be a numeric literal; "" is 0.
Number(s) ==
    IF DigitPrefixLen(s) = Len(s) THEN NumVal(DecimalValue(s)) ELSE NaN

\* parseFloat(s): the longest numeric prefix; NaN when there is none.
parseFloat(s) ==
    IF DigitPrefixLen(s) = 0 THEN NaN
    ELSE NumVal(DecimalValue(SubSeq(s, 1, DigitPrefixLen(s))))

(***************************************************************************)
(* constants.ts                                                            *)
(***************************************************************************)
\* The settings in the order the module body reads them (lines 7, 12-23).
Settings == <<"COMMITMENT_LEVEL", "RPC_ENDPOINT", "RPC_WEBSOCKET_ENDPOINT",
              "LOG_LEVEL", "CHECK_IF_MINT_IS_RENOUNCED", "MAX_SELL_RETRIES",
              "PRIVATE_KEY", "QUOTE_MINT", "QUOTE_AMOUNT", "MIN_POOL_SIZE",
              "MAX_POOL_SIZE", "ONE_TOKEN_AT_A_TIME",
              "SELL_AFTER_GAIN_PERCENTAGE">>

SettingNames == {Settings[k] : k \in 1..Len(Settings)}

BooleanSettings == {"CHECK_IF_MINT_IS_RENOUNCED", "ONE_TOKEN_AT_A_TIME"}
StringSettings ==
    SettingNames \ (BooleanSettings \cup
        {"COMMITMENT_LEVEL", "MAX_SELL_RETRIES", "SELL_AFTER_GAIN_PERCENTAGE"})

possibleCommitments == {sProcessed, sConfirmed, sFinalized}

\* process.exit has not been called
Running == -1

\* Module-body positions: 1 reads COMMITMENT_LEVEL, 2 is the check of lines
\* 8-11, position k + 1 reads Settings[k] for k >= 2.
CheckStep == 2
CfgDone == Len(Settings) + 2

StepName(step) == IF step = 1 THEN Settings[1] ELSE Settings[step - 1]

\* A well-formed environment.
BaseEnv ==
    [name \in SettingNames |->
        CASE name = "COMMITMENT_LEVEL" -> sProcessed
          [] name \in BooleanSettings -> sTrue
          [] name = "MAX_SELL_RETRIES" -> sThree
          [] name = "SELL_AFTER_GAIN_PERCENTAGE" -> sTwentyFive
          [] OTHER -> sOpaque]

\* The values tried for one setting.
EnvValues(name) ==
    CASE name = "COMMITMENT_LEVEL" ->
            {sProcessed, sConfirmed, sFinalized, sUrgent, Absent}
      [] name \in BooleanSettings -> {sTrue, sFalse, sYes, Absent}
      [] name = "MAX_SELL_RETRIES" -> {sThree, sAbc, sThreeA, Absent}
      [] name = "SELL_AFTER_GAIN_PERCENTAGE" ->
            {sTwentyFive, sAbc, sThreeA, Absent}
      [] OTHER -> {sOpaque, Absent}

\* The environments explored: BaseEnv with at most one setting changed.
Environments ==
    UNION {{[BaseEnv EXCEPT ![name] = v] : v \in EnvValues(name)} :
              name \in SettingNames}

\* retrieveEnvVariable(name, logger): the value of the variable, or, when it
\* is absent, an error line and process.exit(1).
retrieveEnvVariable(name) ==
    IF env[name] = Absent
    THEN [exit |-> TRUE, value |-> Absent,
          error |-> <<[setting |-> name, msg |-> "is not set"]>>]
    ELSE [exit |-> FALSE, value |-> env[name], error |-> <<>>]

\* One export of constants.ts:
\*   export const NAME = Convert(retrieveEnvVariable(NAME, logger))
\* where converted is Convert of the value read (unused when the read exits).
LoadSetting(name, converted) ==
    LET r == retrieveEnvVariable(name) IN
    /\ readLog' = Append(readLog, name)
    /\ errorLog' = errorLog \o r.error
    /\ IF r.exit
       THEN /\ exitCode' = 1
            /\ UNCHANGED <<cfgStep, config>>
       ELSE /\ exitCode' = exitCode
            /\ cfgStep' = cfgStep + 1
            /\ config' = [config EXCEPT ![name] = converted]
    /\ UNCHANGED env
    /\ UNCHANGED liqVars

\* line 7
LoadCommitmentLevel ==
    /\ exitCode = Running
    /\ cfgStep = 1
    /\ LoadSetting("COMMITMENT_LEVEL",
                   StrVal(retrieveEnvVariable("COMMITMENT_LEVEL").value))

\* CommitmentAllowed with the membership test lost: every value passes.
CommitmentAllowed_Any(v) == TRUE

\* line 8: possibleCommitments.includes(COMMITMENT_LEVEL)
CommitmentAllowed(v) == v \in possibleCommitments

\* lines 8-11
CheckCommitmentLevel ==
    /\ exitCode = Running
    /\ cfgStep = CheckStep
    /\ IF CommitmentAllowed(config["COMMITMENT_LEVEL"].s)
       THEN /\ cfgStep' = cfgStep + 1
            /\ UNCHANGED <<errorLog, exitCode>>
       ELSE /\ errorLog' = Append(errorLog,
                   [setting |-> "COMMITMENT_LEVEL",
                    msg |-> "Invalid commitment level"])
            /\ exitCode' = 1
            /\ UNCHANGED cfgStep
    /\ UNCHANGED <<env, config, readLog>>
    /\ UNCHANGED liqVars

\* lines 12-14, 17-21: the string is exported as read
LoadString ==
    /\ exitCode = Running
    /\ cfgStep \in (CheckStep + 1)..(CfgDone - 1)
    /\ StepName(cfgStep) \in StringSettings
    /\ LoadSetting(StepName(cfgStep),
                   StrVal(retrieveEnvVariable(StepName(cfgStep)).value))

\* lines 15, 22: `=== 'true'`
IsTrueString(s) == BoolVal(s = sTrue)

\* lines 15, 22
LoadBoolean ==
    /\ exitCode = Running
    /\ cfgStep \in (CheckStep + 1)..(CfgDone - 1)
    /\ StepName(cfgStep) \in BooleanSettings
    /\ LoadSetting(StepName(cfgStep),
                   IsTrueString(retrieveEnvVariable(StepName(cfgStep)).value))

\* line 16: Number(retrieveEnvVariable('MAX_SELL_RETRIES', logger))
LoadMaxSellRetries ==
    /\ exitCode = Running
    /\ cfgStep \in (CheckStep + 1)..(CfgDone - 1)
    /\ StepName(cfgStep) = "MAX_SELL_RETRIES"
    /\ LoadSetting("MAX_SELL_RETRIES",
                   Number(retrieveEnvVariable("MAX_SELL_RETRIES").value))

\* line 23: parseFloat(retrieveEnvVariable('SELL_AFTER_GAIN_PERCENTAGE', logger))
LoadSellAfterGainPercentage ==
    /\ exitCode = Running
    /\ cfgStep \in (CheckStep + 1)..(CfgDone - 1)
    /\ StepName(cfgStep) = "SELL_AFTER_GAIN_PERCENTAGE"
    /\ LoadSetting("SELL_AFTER_GAIN_PERCENTAGE",
           parseFloat(retrieveEnvVariable("SELL_AFTER_GAIN_PERCENTAGE").value))

\* The module body of constants.ts has run to its end.
ConfigLoaded == exitCode = Running /\ cfgStep = CfgDone

(***************************************************************************)
(* liquidity.ts: the ledger, the account layout and the oracle             *)
(***************************************************************************)
\* account.data of a token account: the fields of SPL_ACCOUNT_LAYOUT in
\* order, <<mint, amount>>; a shorter buffer is not a token account.
\* Records of the ledger: { pubkey, account: { owner, data } }.
LedgerRecords ==
    { [pubkey |-> "P1", owner |-> "TokenProgram", data |-> <<"A", 1000>>],
      [pubkey |-> "P2", owner |-> "TokenProgram", data |-> <<"B", 500>>],
      [pubkey |-> "P3", owner |-> "TokenProgram", data |-> <<"A">>] }

\* Sequences over S of length n.
SeqsOfLen(S, n) == [1..n -> S]

\* The responses connection.getTokenAccountsByOwner may resolve with.
LedgerResponses == UNION {SeqsOfLen(LedgerRecords, n) : n \in 0..MaxRecords}

\* SPL_ACCOUNT_LAYOUT.decode(data) returns (a truncated buffer makes it throw)
Decodes(data) == Len(data) = 2

\* SPL_ACCOUNT_LAYOUT.decode(account.data)
Decode(data) == [mint |-> data[1], amount |-> data[2]]

\* JavaScript values of response.raw.usdPrice and of a holding's price; a
\* number n stands for n * 0.0001 USD, the oracle's precision.
JsNumber(n) == [t |-> "number", n |-> n]
JsUndefined == [t |-> "undefined", n |-> 0]
\* the string "0"
JsStringZero == [t |-> "string", n |-> 0]

\* What the oracle may put in usdPrice.
UsdPrices == {JsNumber(-1), JsNumber(0), JsNumber(500), JsUndefined,
              JsStringZero}

\* Resolved values of Moralis.SolApi.token.getTokenPrice: a response with a
\* raw body, or one without (response.raw is undefined).
OracleResponses ==
    {[raw |-> TRUE, usdPrice |-> p] : p \in UsdPrices}
        \cup {[raw |-> FALSE, usdPrice |-> JsUndefined]}

\* A fetchCoinPrice invocation: st is its position ("none": not called,
\* "start": awaiting Moralis.start, "price": awaiting getTokenPrice, "done":
\* settled), ret its resolved value, starts / requests the Moralis.start and
\* getTokenPrice calls it made, caught the exception its catch block logged,
\* resp the usdPrice it read.
NoFetch == [st |-> "none", ret |-> JsUndefined, starts |-> 0, requests |-> 0,
            caught |-> "none", resp |-> JsUndefined]

\* PriceOf without the `price === 0` branch.
PriceOf_NoZeroCheck(price) == price

\* PriceOf rounding a number to whole dollars (10000 units) before the test.
PriceOf_Rounded(price) ==
    IF price.t = "number" /\ (price.n \div 10000) = 0 THEN JsUndefined
    ELSE IF price.t = "number" THEN JsNumber((price.n \div 10000) * 10000)
    ELSE price

\* lines 104-113: the value fetchCoinPrice returns for a usdPrice
PriceOf(price) ==
    IF price.t = "number" /\ price.n = 0 THEN JsUndefined ELSE price

\* lines 83-90: the element pushed for a record
Holding(rec, accountInfo, coinPrice) ==
    [pubkey |-> rec.pubkey, programId |-> rec.owner,
     accountInfo |-> accountInfo, price |-> coinPrice,
     amount |-> accountInfo.amount]

\* Push that skips a holding whose price is undefined.
Push_DropUnpriced(accs, holding) ==
    IF holding.price = JsUndefined THEN accs ELSE Append(accs, holding)

\* line 83: accounts.push(...)
Push(accs, holding) == Append(accs, holding)

(***************************************************************************)
(* getTokenAccounts                                                        *)
(***************************************************************************)
\* lines 66-77: the call, up to `await connection.getTokenAccountsByOwner`.
\* constants.ts is imported at line 17, so its body has run to the end.
Call ==
    /\ ConfigLoaded
    /\ pc = "idle"
    /\ pc' = "ledger"
    /\ ledgerCalls' = ledgerCalls + 1
    /\ UNCHANGED <<tokenResp, idx, accounts, fetches, oracleCalls, escaped>>
    /\ UNCHANGED cfgVars

\* lines 71-79: the ledger call resolves
LedgerResolve ==
    /\ pc = "ledger"
    /\ \E resp \in LedgerResponses :
          /\ tokenResp' = resp
          /\ fetches' = [k \in 1..Len(resp) |-> NoFetch]
    /\ accounts' = <<>>
    /\ idx' = 1
    /\ pc' = "loop"
    /\ UNCHANGED <<ledgerCalls, oracleCalls, escaped>>
    /\ UNCHANGED cfgVars

\* line 71: the ledger call rejects; nothing catches it
LedgerReject ==
    /\ pc = "ledger"
    /\ pc' = "threw"
    /\ escaped' = "ledger"
    /\ UNCHANGED <<tokenResp, idx, accounts, fetches, ledgerCalls, oracleCalls>>
    /\ UNCHANGED cfgVars

\* lines 80-82 and 97-99: one iteration up to the first await of
\* fetchCoinPrice; decode is outside any try block
Iterate ==
    /\ pc = "loop"
    /\ idx <= Len(tokenResp)
    /\ IF Decodes(tokenResp[idx].data)
       THEN /\ fetches' = [fetches EXCEPT ![idx] =
                   [@ EXCEPT !.st = "start", !.starts = @ + 1]]
            /\ oracleCalls' = [oracleCalls EXCEPT !.start = @ + 1]
            /\ pc' = "await"
            /\ UNCHANGED escaped
       ELSE /\ pc' = "threw"
            /\ escaped' = "decode"
            /\ UNCHANGED <<fetches, oracleCalls>>
    /\ UNCHANGED <<tokenResp, idx, accounts, ledgerCalls>>
    /\ UNCHANGED cfgVars

\* lines 99-100: Moralis.start resolves, getTokenPrice is called
StartResolve(k) ==
    /\ fetches[k].st = "start"
    /\ fetches' = [fetches EXCEPT ![k] =
           [@ EXCEPT !.st = "price", !.requests = @ + 1]]
    /\ oracleCalls' = [oracleCalls EXCEPT !.price = @ + 1]
    /\ UNCHANGED <<pc, tokenResp, idx, accounts, ledgerCalls, escaped>>
    /\ UNCHANGED cfgVars

\* StartReject with Moralis.start outside the try block: the exception leaves
\* fetchCoinPrice and, through the await of line 82, getTokenAccounts.
StartReject_Rethrow(k) ==
    /\ fetches[k].st = "start"
    /\ fetches' = [fetches EXCEPT ![k] = [@ EXCEPT !.st = "done"]]
    /\ pc' = "threw"
    /\ escaped' = "start"
    /\ UNCHANGED <<tokenResp, idx, accounts, ledgerCalls, oracleCalls>>
    /\ UNCHANGED cfgVars

\* lines 99, 114-117: Moralis.start throws; caught, logged, undefined returned
StartReject(k) ==
    /\ fetches[k].st = "start"
    /\ fetches' = [fetches EXCEPT ![k] =
           [@ EXCEPT !.st = "done", !.ret = JsUndefined, !.caught = "start"]]
    /\ UNCHANGED <<pc, tokenResp, idx, accounts, ledgerCalls, oracleCalls,
                   escaped>>
    /\ UNCHANGED cfgVars

\* lines 100-113: getTokenPrice resolves; reading response.raw.usdPrice of a
\* response without a raw body throws inside the try block
PriceResolve(k) ==
    /\ fetches[k].st = "price"
    /\ \E response \in OracleResponses :
          fetches' = [fetches EXCEPT ![k] =
              IF response.raw
              THEN [@ EXCEPT !.st = "done", !.resp = response.usdPrice,
                             !.ret = PriceOf(response.usdPrice)]
              ELSE [@ EXCEPT !.st = "done", !.ret = JsUndefined,
                             !.caught = "malformed"]]
    /\ UNCHANGED <<pc, tokenResp, idx, accounts, ledgerCalls, oracleCalls,
                   escaped>>
    /\ UNCHANGED cfgVars

\* PriceReject with a retry: the catch block asks the oracle again (at most
\* MaxRetries times, to keep the state space finite).
PriceReject_Retry(k) ==
    /\ fetches[k].st = "price"
    /\ fetches[k].requests <= MaxRetries
    /\ fetches' = [fetches EXCEPT ![k] = [@ EXCEPT !.requests = @ + 1]]
    /\ oracleCalls' = [oracleCalls EXCEPT !.price = @ + 1]
    /\ UNCHANGED <<pc, tokenResp, idx, accounts, ledgerCalls, escaped>>
    /\ UNCHANGED cfgVars

\* lines 100, 114-117: getTokenPrice rejects; caught, logged, undefined
PriceReject(k) ==
    /\ fetches[k].st = "price"
    /\ fetches' = [fetches EXCEPT ![k] =
           [@ EXCEPT !.st = "done", !.ret = JsUndefined, !.caught = "price"]]
    /\ UNCHANGED <<pc, tokenResp, idx, accounts, ledgerCalls, oracleCalls,
                   escaped>>
    /\ UNCHANGED cfgVars

\* Awaited without the await: the loop goes on while the promise is pending.
Awaited_NoAwait(k) == TRUE

\* line 82: `await fetchCoinPrice(...)` lets the loop go on
Awaited(k) == fetches[k].st = "done"

\* lines 82-91: the awaited price arrives, the holding is pushed
Resume ==
    /\ pc = "await"
    /\ Awaited(idx)
    /\ accounts' = Push(accounts,
           Holding(tokenResp[idx], Decode(tokenResp[idx].data),
                   fetches[idx].ret))
    /\ idx' = idx + 1
    /\ pc' = "loop"
    /\ UNCHANGED <<tokenResp, fetches, ledgerCalls, oracleCalls, escaped>>
    /\ UNCHANGED cfgVars

\* line 93
Return ==
    /\ pc = "loop"
    /\ idx > Len(tokenResp)
    /\ pc' = "returned"
    /\ UNCHANGED <<tokenResp, idx, accounts, fetches, ledgerCalls, oracleCalls,
                   escaped>>
    /\ UNCHANGED cfgVars

(***************************************************************************)
(* Specification                                                           *)
(***************************************************************************)
Init ==
    /\ env \in Environments
    /\ cfgStep = 1
    /\ config = [name \in SettingNames |-> Unset]
    /\ readLog = <<>>
    /\ errorLog = <<>>
    /\ exitCode = Running
    /\ pc = "idle"
    /\ tokenResp = <<>>
    /\ idx = 1
    /\ accounts = <<>>
    /\ fetches = <<>>
    /\ ledgerCalls = 0
    /\ oracleCalls = [start |-> 0, price |-> 0]
    /\ escaped = "none"

Next ==
    \/ LoadCommitmentLevel
    \/ CheckCommitmentLevel
    \/ LoadString
    \/ LoadBoolean
    \/ LoadMaxSellRetries
    \/ LoadSellAfterGainPercentage
    \/ Call
    \/ LedgerResolve
    \/ LedgerReject
    \/ Iterate
    \/ \E k \in 1..Len(fetches) : StartResolve(k)
    \/ \E k \in 1..Len(fetches) : StartReject(k)
    \/ \E k \in 1..Len(fetches) : PriceResolve(k)
    \/ \E k \in 1..Len(fetches) : PriceReject(k)
    \/ Resume
    \/ Return

Spec == Init /\ [][Next]_vars

(***************************************************************************)
(* Helpers of the properties                                               *)
(***************************************************************************)
AllowedLevels == {sProcessed, sConfirmed, sFinalized}

\* The fetchCoinPrice invocations with an oracle call in flight.
InFlight == {k \in 1..Len(fetches) : fetches[k].st \in {"start", "price"}}

\* A price is absent.
IsAbsent(price) == price.t = "undefined"

\* Position k has been pushed.
Pushed(k) == k <= Len(accounts)

RECURSIVE SumRequests(_)
SumRequests(k) ==
    IF k = 0 THEN 0 ELSE fetches[k].requests + SumRequests(k - 1)

(***************************************************************************)
(* C1: whenever getTokenAccounts has returned after a ledger response of   *)
(* k records, the result holds exactly k holdings and the i-th holding     *)
(* carries the pubkey, mint and amount of the i-th record, whatever the    *)
(* oracle outcomes were; while the loop runs the result is that prefix.    *)
(***************************************************************************)
C1_OneHoldingPerRecordInOrder ==
    /\ pc \in {"loop", "await", "returned"} =>
          /\ Len(accounts) = idx - 1
          /\ Len(accounts) <= Len(tokenResp)
          /\ \A i \in 1..Len(accounts) :
                /\ accounts[i].pubkey = tokenResp[i].pubkey
                /\ accounts[i].accountInfo.mint = tokenResp[i].data[1]
                /\ accounts[i].amount = tokenResp[i].data[2]
    /\ pc = "returned" => Len(accounts) = Len(tokenResp)

\* Two different records, the first with a failed lookup, the second with a
\* price, both returned in ledger order.
C1_Witness ==
    /\ pc = "returned"
    /\ Len(tokenResp) = 2
    /\ tokenResp[1].pubkey = "P2" /\ tokenResp[2].pubkey = "P1"
    /\ fetches[1].caught = "price"
    /\ accounts[2].price = JsNumber(500)
    /\ accounts[1].pubkey = "P2" /\ accounts[2].pubkey = "P1"

(***************************************************************************)
(* C2: when Moralis.start or getTokenPrice throws (or the response is      *)
(* malformed), fetchCoinPrice resolves with undefined, the holding pushed  *)
(* for that record has an absent price, no oracle exception leaves         *)
(* getTokenAccounts, and the loop can go on from that record.              *)
(***************************************************************************)
C2_OracleFailureIsSwallowed ==
    /\ escaped \in {"none", "ledger", "decode"}
    /\ \A k \in 1..Len(fetches) :
          fetches[k].caught # "none" =>
             /\ fetches[k].st = "done"
             /\ IsAbsent(fetches[k].ret)
             /\ Pushed(k) => IsAbsent(accounts[k].price)
             /\ ~Pushed(k) => pc = "await" /\ idx = k /\ ENABLED Resume
    /\ \A k \in 1..Len(fetches) :
          fetches[k].st = "done" /\ ~Pushed(k) => pc = "await" /\ idx = k

\* The client failed to start for the first record, the price request was
\* rejected for the second; both holdings were returned.
C2_Witness ==
    /\ pc = "returned"
    /\ Len(accounts) = 2
    /\ fetches[1].caught = "start"
    /\ fetches[2].caught = "price"
    /\ IsAbsent(accounts[1].price) /\ IsAbsent(accounts[2].price)

(***************************************************************************)
(* C3: a response whose usdPrice is the number 0 gives an absent price,    *)
(* never the number 0.                                                     *)
(***************************************************************************)
C3_ZeroPriceIsAbsent ==
    \A k \in 1..Len(fetches) :
       (/\ fetches[k].st = "done"
        /\ fetches[k].caught = "none"
        /\ fetches[k].resp = JsNumber(0)) =>
            /\ IsAbsent(fetches[k].ret)
            /\ Pushed(k) =>
                  /\ IsAbsent(accounts[k].price)
                  /\ accounts[k].price # JsNumber(0)

C3_Witness ==
    \E k \in 1..Len(accounts) :
       /\ fetches[k].caught = "none"
       /\ fetches[k].resp = JsNumber(0)
       /\ IsAbsent(accounts[k].price)

(***************************************************************************)
(* C4: a response whose usdPrice is a positive number p gives the holding  *)
(* of that record the price p exactly, at every position and whatever the  *)
(* other lookups of the call did.                                          *)
(***************************************************************************)
C4_PositivePriceIsKept ==
    \A k \in 1..Len(fetches) :
       (/\ fetches[k].st = "done"
        /\ fetches[k].caught = "none"
        /\ fetches[k].resp.t = "number"
        /\ fetches[k].resp.n > 0) =>
            /\ fetches[k].ret = fetches[k].resp
            /\ Pushed(k) => accounts[k].price = fetches[k].resp

\* Mint A (amount 1000, oracle answers 0.05) then mint B (amount 500, the
\* oracle call is rejected).
C4_Witness ==
    /\ pc = "returned"
    /\ Len(accounts) = 2
    /\ accounts[1].accountInfo.mint = "A" /\ accounts[1].amount = 1000
    /\ accounts[1].price = JsNumber(500)
    /\ accounts[2].accountInfo.mint = "B" /\ accounts[2].amount = 500
    /\ fetches[2].caught = "price"
    /\ IsAbsent(accounts[2].price)

(***************************************************************************)
(* C5: every holding's price is a strictly positive number or absent,      *)
(* whatever the oracle put in usdPrice.                                    *)
(***************************************************************************)
C5_PricePositiveOrAbsent ==
    \A i \in 1..Len(accounts) :
       \/ IsAbsent(accounts[i].price)
       \/ accounts[i].price.t = "number" /\ accounts[i].price.n > 0

(***************************************************************************)
(* C6: getTokenAccounts fails only if the ledger call fails: an exception  *)
(* that leaves it is the ledger's, raised before any oracle call.          *)
(***************************************************************************)
C6_FailsOnlyOnLedgerFailure ==
    pc = "threw" =>
       /\ escaped = "ledger"
       /\ oracleCalls = [start |-> 0, price |-> 0]

(***************************************************************************)
(* C7: at most one oracle lookup is in flight; a lookup begins only after  *)
(* the single ledger call has returned and after the lookups of all        *)
(* earlier records have completed and been pushed.                         *)
(***************************************************************************)
C7_LookupsAreSequential ==
    /\ Cardinality(InFlight) <= 1
    /\ ledgerCalls <= 1
    /\ \A k \in 1..Len(fetches) :
          fetches[k].st # "none" =>
             /\ pc \notin {"idle", "ledger"}
             /\ ledgerCalls = 1
             /\ \A j \in 1..(k - 1) : fetches[j].st = "done" /\ Pushed(j)

\* The lookup of the second record is in flight after the first completed.
C7_Witness ==
    /\ Len(fetches) = 2
    /\ fetches[1].st = "done"
    /\ fetches[2].st = "price"
    /\ InFlight = {2}

(***************************************************************************)
(* C8: each record gets at most one Moralis.start and one getTokenPrice    *)
(* call, also after a failure, so the price requests never outnumber the   *)
(* ledger records; with no records the result is empty and no oracle call  *)
(* is made.                                                                *)
(***************************************************************************)
C8_AtMostOneRequestPerRecord ==
    /\ \A k \in 1..Len(fetches) :
          fetches[k].requests <= 1 /\ fetches[k].starts <= 1
    /\ oracleCalls.price = SumRequests(Len(fetches))
    /\ oracleCalls.price <= Len(tokenResp)
    /\ oracleCalls.start <= Len(tokenResp)
    /\ (pc = "returned" /\ Len(tokenResp) = 0) =>
          /\ accounts = <<>>
          /\ oracleCalls = [start |-> 0, price |-> 0]

\* Both price requests of a two-record call were rejected; two were made.
C8_Witness ==
    /\ pc = "returned"
    /\ Len(tokenResp) = 2
    /\ fetches[1].caught = "price" /\ fetches[2].caught = "price"
    /\ oracleCalls.price = 2

(***************************************************************************)
(* C9: COMMITMENT_LEVEL passes exactly when it is processed, confirmed or  *)
(* finalized.  With any other value the loader never gets past the check,  *)
(* reads no later setting, makes no ledger or oracle call, and its exit is *)
(* with a non-zero code after an error line; with an allowed value the     *)
(* check passes and no error line names COMMITMENT_LEVEL.                  *)
(***************************************************************************)
C9_CommitmentLevelChecked ==
    IF env["COMMITMENT_LEVEL"] \in AllowedLevels
    THEN /\ \A e \in 1..Len(errorLog) :
               errorLog[e].setting # "COMMITMENT_LEVEL"
         /\ cfgStep = CheckStep =>
               /\ exitCode = Running
               /\ ENABLED (CheckCommitmentLevel /\ cfgStep' = CheckStep + 1)
    ELSE /\ cfgStep <= CheckStep
         /\ readLog \in {<<>>, <<"COMMITMENT_LEVEL">>}
         /\ ledgerCalls = 0
         /\ oracleCalls = [start |-> 0, price |-> 0]
         /\ pc = "idle"
         /\ exitCode # Running =>
               /\ exitCode # 0
               /\ errorLog # <<>>
               /\ errorLog[Len(errorLog)].setting = "COMMITMENT_LEVEL"
         /\ (cfgStep = CheckStep /\ exitCode = Running) =>
               /\ ENABLED (CheckCommitmentLevel /\ exitCode' = 1)
               /\ ~ENABLED (CheckCommitmentLevel /\ exitCode' = Running)

\* COMMITMENT_LEVEL=urgent: the loader has exited at the check.
C9_Witness ==
    /\ env["COMMITMENT_LEVEL"] = sUrgent
    /\ exitCode = 1
    /\ cfgStep = CheckStep
    /\ readLog = <<"COMMITMENT_LEVEL">>

(***************************************************************************)
(* C10: when the loader completes without exiting, every setting was       *)
(* present and well formed: the numeric settings are numbers (not NaN) and *)
(* the boolean settings were given as 'true' or 'false'.                   *)
(***************************************************************************)
C10_LoadedConfigIsWellFormed ==
    ConfigLoaded =>
       /\ \A name \in SettingNames :
             env[name] # Absent /\ config[name].t # "unset"
       /\ config["MAX_SELL_RETRIES"].t = "number"
       /\ config["SELL_AFTER_GAIN_PERCENTAGE"].t = "number"
       /\ \A name \in BooleanSettings : env[name] \in {sTrue, sFalse}
====
